---- MODULE Spec2Model ----
(***************************************************************************)
(* Model of ztron's shielded transaction Builder (ztron/src/builder.rs),  *)
(* specification Spec, and of opentron's GraphQL front end                 *)
(* (opentron/src/graphql/server.rs), specification ServerSpec.             *)
(*                                                                         *)
(* Integers wider than the model checker's machine integers (u64 note      *)
(* values, the i64 Amount, U256 transparent amounts) are sequences of      *)
(* base-10000 limbs, most significant first, zero being the empty sequence.*)
(* Signed amounts are records [neg, mag].  Cryptographic values (proofs,   *)
(* commitments, keys, signatures, ciphertexts) are opaque: a field of a    *)
(* descriptor is a chunk [f, len, val] whose val names the inputs the      *)
(* value is computed from.                                                 *)
(***************************************************************************)
EXTENDS Integers, Sequences, FiniteSets, TLC

VARIABLES
    life,               \* "open": the Builder is owned by the caller; "consumed": build took it; "aborted": a call panicked
    scaling_exponent,   \* the scaling_exponent argument of Builder::new
    scaling_factor,     \* Builder.scaling_factor (U256)
    value_balance,      \* Builder.value_balance (Amount)
    anchor,             \* Builder.anchor (Option<Fr>)
    spends,             \* Builder.spends
    outputs,            \* Builder.outputs
    transparent_input,  \* Builder.transparent_input (Option)
    transparent_output, \* Builder.transparent_output (Option)
    op,                 \* the last operation called
    ret,                \* what the last operation returned (or that it panicked)
    txn_type,           \* build's local txn_type: the classifier's answer
    prover_calls,       \* the calls build made to the proving capability and the signers, in order
    sighash,            \* build's local sighash, as the preimage that was hashed (None until computed)
    enable,             \* graphql_server: config.enable
    endpoint_ok,        \* graphql_server: whether config.endpoint parses as a socket address
    server,             \* graphql_server: "init", "returned", "panicked", "serving" or "stopped"
    bound,              \* graphql_server: whether Server::bind was called
    req,                \* the last request given to the service (None: none yet)
    conn,               \* the last outcome on a connection: "idle" (none yet), "responded" or
                        \* "aborted" (the service panicked and no response was written)
    response,           \* the last response written (None: none)
    served,             \* number of requests given to the service
    pending,            \* the requests whose future is pending at an await, in order of receipt
    signalled           \* whether the shutdown signal was received

server_vars == <<enable, endpoint_ok, server, bound, req, conn, response, served, pending,
                 signalled>>

vars == <<life, scaling_exponent, scaling_factor, value_balance, anchor, spends, outputs,
          transparent_input, transparent_output, op, ret, txn_type, prover_calls, sighash,
          server_vars>>

builder == <<scaling_factor, value_balance, anchor, spends, outputs,
             transparent_input, transparent_output>>

-----------------------------------------------------------------------------
(* Bounds of the model. *)

\* note and output values 1..MaxValue are tried, beside the Amount edge values
MaxValue == 2
\* merkle roots 1..MaxRoot
MaxRoot == 2
\* requests given to the GraphQL service in one run
MaxRequests == 2

-----------------------------------------------------------------------------
(* Arithmetic on naturals of any size: limbs in base 10000, most significant first. *)

\* canonical form: no leading zero limb
Strip(s) ==
    LET nz == {i \in 1..Len(s) : s[i] # 0}
    IN IF nz = {} THEN <<>>
       ELSE LET first == CHOOSE i \in nz : \A j \in nz : i <= j
            IN SubSeq(s, first, Len(s))

\* the limbs of a machine integer
RECURSIVE Big(_)
Big(n) == IF n = 0 THEN <<>> ELSE Append(Big(n \div 10000), n % 10000)

Zeros(n) == [i \in 1..n |-> 0]

Pad(a, n) == Zeros(n - Len(a)) \o a

DLess(a, b) ==
    \/ Len(a) < Len(b)
    \/ /\ Len(a) = Len(b)
       /\ \E i \in 1..Len(a) : a[i] < b[i] /\ \A j \in 1..(i - 1) : a[j] = b[j]

DLeq(a, b) == ~DLess(b, a)

RECURSIVE AddFrom(_, _, _, _, _)
AddFrom(a, b, i, carry, acc) ==
    IF i = 0 THEN <<carry>> \o acc
    ELSE LET x == a[i] + b[i] + carry
         IN AddFrom(a, b, i - 1, x \div 10000, <<x % 10000>> \o acc)

DAdd(a, b) ==
    LET n == IF Len(a) > Len(b) THEN Len(a) ELSE Len(b)
    IN Strip(AddFrom(Pad(a, n), Pad(b, n), n, 0, <<>>))

RECURSIVE SubFrom(_, _, _, _, _)
SubFrom(a, b, i, borrow, acc) ==
    IF i = 0 THEN acc
    ELSE LET x == a[i] - b[i] - borrow
         IN SubFrom(a, b, i - 1, IF x < 0 THEN 1 ELSE 0, <<(x + 10000) % 10000>> \o acc)

\* a - b, for a >= b
DSub(a, b) == Strip(SubFrom(a, Pad(b, Len(a)), Len(a), 0, <<>>))

\* a * k, for one limb k
RECURSIVE MulSmallFrom(_, _, _, _, _)
MulSmallFrom(a, k, i, carry, acc) ==
    IF i = 0 THEN <<carry>> \o acc
    ELSE LET x == a[i] * k + carry
         IN MulSmallFrom(a, k, i - 1, x \div 10000, <<x % 10000>> \o acc)

DMulSmall(a, k) == Strip(MulSmallFrom(a, k, Len(a), 0, <<>>))

\* schoolbook multiplication, limb by limb of b
RECURSIVE MulFrom(_, _, _, _)
MulFrom(a, b, i, acc) ==
    IF i > Len(b) THEN acc
    ELSE LET next == DAdd(IF acc = <<>> THEN <<>> ELSE Append(acc, 0), DMulSmall(a, b[i]))
         IN IF next = <<>> THEN MulFrom(a, b, i + 1, <<>>) ELSE MulFrom(a, b, i + 1, next)

DMul(a, b) == IF Len(a) >= Len(b) THEN MulFrom(a, b, 1, <<>>) ELSE MulFrom(b, a, 1, <<>>)

\* quotient and remainder of a by a small d
RECURSIVE DivFrom(_, _, _, _, _)
DivFrom(a, d, i, rem, acc) ==
    IF i > Len(a) THEN [q |-> Strip(acc), r |-> rem]
    ELSE LET x == rem * 10000 + a[i]
         IN DivFrom(a, d, i + 1, x % d, Append(acc, x \div d))

DDivMod(a, d) == DivFrom(a, d, 1, 0, <<>>)

\* signed values
SInt(neg, mag) == [neg |-> neg /\ mag # <<>>, mag |-> mag]

SNeg(x) == SInt(~x.neg, x.mag)

SAdd(x, y) ==
    IF x.neg = y.neg THEN SInt(x.neg, DAdd(x.mag, y.mag))
    ELSE IF DLess(x.mag, y.mag) THEN SInt(y.neg, DSub(y.mag, x.mag))
    ELSE SInt(x.neg, DSub(x.mag, y.mag))

SSub(x, y) == SAdd(x, SNeg(y))

-----------------------------------------------------------------------------
(* Option, Result and the error taxonomy. *)

None == <<>>
Some(x) == <<x>>
is_some(o) == o # None
unwrap(o) == o[1]

Ret(tag, err, msg, kind, payload) ==
    [tag |-> tag, err |-> err, msg |-> msg, kind |-> kind, payload |-> payload]

NoRet == Ret("None", "", "", "", <<>>)
Ok == Ret("Ok", "", "", "", <<>>)
OkBuild(kind, payload) == Ret("Ok", "", "", kind, payload)
Err(e, msg) == Ret("Err", e, msg, "", <<>>)
Panic(msg) == Ret("Panic", "", msg, "", <<>>)

Errors == {"AnchorMismatch", "BindingSig", "ChangeIsNegative", "InvalidAddress",
           "InvalidAmount", "NoChangeAddress", "SpendProof", "InvalidTransaction"}

-----------------------------------------------------------------------------
(* Amount (zcash_primitives) and U256 (primitive_types). *)

\* COIN = 1_0000_0000, MAX_MONEY = 21_000_000 * COIN
MAX_MONEY == DMul(Big(21000000), Big(100000000))

AmountZero == SInt(FALSE, <<>>)

\* Amount::from_u64: Err unless amount <= MAX_MONEY
AmountFromU64Ok(v) == DLeq(v, MAX_MONEY)

\* Amount::from_i64, as Add and Sub use it: -MAX_MONEY <= amount <= MAX_MONEY
AmountInRange(x) == DLeq(x.mag, MAX_MONEY)

is_negative(x) == x.neg
is_positive(x) == ~x.neg /\ x.mag # <<>>

\* 2^256 - 1
U256_MAX ==
    <<11, 5792, 892, 3731, 6195, 4235, 7098, 5008, 6879, 785, 3269, 9846, 6564, 564, 394, 5758,
      4007, 9131, 2963, 9935>>

U256Fits(a) == DLeq(a, U256_MAX)

\* U256::exp10(n), which panics when the power overflows
exp10(n) ==
    <<CASE n % 4 = 0 -> 1 [] n % 4 = 1 -> 10 [] n % 4 = 2 -> 100 [] OTHER -> 1000>>
    \o Zeros(n \div 4)

\* U256::to_big_endian: the n low bytes, most significant first
RECURSIVE to_big_endian(_, _)
to_big_endian(a, n) ==
    IF n = 0 THEN <<>>
    ELSE IF a = <<>> THEN Zeros(n)
    ELSE LET dm == DDivMod(a, 256) IN Append(to_big_endian(dm.q, n - 1), dm.r)

-----------------------------------------------------------------------------
(* Inputs. *)

\* u64 note values of add_sapling_spend
NoteValues == {Big(n) : n \in 1..MaxValue} \cup {MAX_MONEY, DAdd(MAX_MONEY, <<1>>)}

\* Amount values of add_sapling_output
OutputValues == {SInt(FALSE, Big(n)) : n \in 1..MaxValue}
                    \cup {SInt(TRUE, <<1>>), SInt(FALSE, MAX_MONEY)}

Roots == 1..MaxRoot

\* "z_no_g_d" is a payment address whose diversifier maps to no curve point
ZAddresses == {"z1", "z_no_g_d"}
g_d(to) == IF to = "z_no_g_d" THEN None ELSE Some(to)

Addresses == {"T1"}

\* Builder::new panics (U256::exp10 overflows) on an exponent above 77: no Builder exists then
CandidateExponents == {18, 77, 78}
ScalingExponents == {e \in CandidateExponents : U256Fits(exp10(e))}

\* U256 amounts of the transparent legs
TransparentAmounts ==
    {a \in {DMul(Big(n), scaling_factor) : n \in 1..MaxValue} : U256Fits(a)}

-----------------------------------------------------------------------------
(* Builder::new_with_rng *)

\* graphql_server has not been called
ServerNotStarted ==
    /\ enable = FALSE
    /\ endpoint_ok = TRUE
    /\ server = "init"
    /\ bound = FALSE
    /\ req = None
    /\ conn = "idle"
    /\ response = None
    /\ served = 0
    /\ pending = <<>>
    /\ signalled = FALSE

Init ==
    /\ ServerNotStarted
    /\ life = "open"
    /\ scaling_exponent \in ScalingExponents
    /\ scaling_factor = exp10(scaling_exponent)
    /\ value_balance = AmountZero
    /\ anchor = None
    /\ spends = <<>>
    /\ outputs = <<>>
    /\ transparent_input = None
    /\ transparent_output = None
    /\ op = "new"
    /\ ret = NoRet
    /\ txn_type = "None"
    /\ prover_calls = <<>>
    /\ sighash = None

-----------------------------------------------------------------------------
(* The add operations. *)

MaxSpends == 2
MaxOutputs == 2

\* mutant: the limit check lets a third spend through
TooManySpends_off_by_one(n) == n > MaxSpends

TooManySpends(n) == n >= MaxSpends
TooManyOutputs(n) == n >= MaxOutputs

\* mutant: the anchor check is skipped
AnchorMatches_unchecked(a, path_root) == TRUE

\* mutant: the anchor comparison is inverted
AnchorMatches_inverted(a, path_root) == path_root # a

\* the anchor consistency check: the path root against the established anchor
AnchorMatches(a, path_root) == path_root = a

\* self.value_balance += amount
SpendBalance(balance, amount) == SAdd(balance, amount)

\* mutant: the output value is added instead of subtracted
OutputBalance_added(balance, value) == SAdd(balance, value)

\* self.value_balance -= value
OutputBalance(balance, value) == SSub(balance, value)

SaplingSpend(value, root, alpha) == [value |-> value, root |-> root, alpha |-> alpha]

\* Fs::random(&mut self.rng): the draws are opaque and taken as pairwise distinct; the
\* scalar drawn for the k-th leg of its kind is named k
FsRandom(legs) == Len(legs) + 1

add_sapling_spend(value, root, alpha) ==
    /\ life = "open"
    /\ op' = "add_sapling_spend"
    /\ IF TooManySpends(Len(spends))
       THEN /\ ret' = Err("InvalidTransaction", "too many sapling spends")
            /\ UNCHANGED <<life, anchor, value_balance, spends>>
       ELSE IF is_some(anchor) /\ ~AnchorMatches(unwrap(anchor), root)
       THEN /\ ret' = Err("AnchorMismatch", "")
            /\ UNCHANGED <<life, anchor, value_balance, spends>>
       ELSE /\ anchor' = IF is_some(anchor) THEN anchor ELSE Some(root)
            /\ IF ~AmountFromU64Ok(value)
               THEN /\ ret' = Err("InvalidAmount", "")
                    /\ UNCHANGED <<life, value_balance, spends>>
               ELSE LET sum == SpendBalance(value_balance, SInt(FALSE, value))
                    IN IF AmountInRange(sum)
                       THEN /\ value_balance' = sum
                            /\ spends' = Append(spends, SaplingSpend(value, root, alpha))
                            /\ ret' = Ok
                            /\ UNCHANGED life
                       ELSE /\ ret' = Panic("addition should remain in range")
                            /\ life' = "aborted"
                            /\ UNCHANGED <<value_balance, spends>>
    /\ UNCHANGED <<scaling_exponent, scaling_factor, outputs, transparent_input,
                   transparent_output, txn_type, prover_calls, sighash>>

\* SaplingOutput::new
SaplingOutputNew(to, value, rcm) ==
    IF g_d(to) = None THEN Err("InvalidAddress", "")
    ELSE IF is_negative(value) THEN Err("InvalidAmount", "")
    ELSE Ok

SaplingOutput(to, value, rcm) == [to |-> to, value |-> value.mag, rcm |-> rcm]

add_sapling_output(to, value, rcm) ==
    /\ life = "open"
    /\ op' = "add_sapling_output"
    /\ IF TooManyOutputs(Len(outputs))
       THEN /\ ret' = Err("InvalidTransaction", "too many sapling output")
            /\ UNCHANGED <<life, value_balance, outputs>>
       ELSE IF SaplingOutputNew(to, value, rcm) # Ok
       THEN /\ ret' = SaplingOutputNew(to, value, rcm)
            /\ UNCHANGED <<life, value_balance, outputs>>
       ELSE LET diff == OutputBalance(value_balance, value)
            IN IF AmountInRange(diff)
               THEN /\ value_balance' = diff
                    /\ outputs' = Append(outputs, SaplingOutput(to, value, rcm))
                    /\ ret' = Ok
                    /\ UNCHANGED life
               ELSE /\ ret' = Panic("subtraction should remain in range")
                    /\ life' = "aborted"
                    /\ UNCHANGED <<value_balance, outputs>>
    /\ UNCHANGED <<scaling_exponent, scaling_factor, anchor, spends, transparent_input,
                   transparent_output, txn_type, prover_calls, sighash>>

\* mutant: a second transparent input replaces the first
add_transparent_input_overwrites(value) ==
    /\ life = "open"
    /\ op' = "add_transparent_input"
    /\ transparent_input' = Some([amount |-> value])
    /\ ret' = Ok
    /\ UNCHANGED <<life, scaling_exponent, scaling_factor, value_balance, anchor, spends,
                   outputs, transparent_output, txn_type, prover_calls, sighash>>

add_transparent_input(value) ==
    /\ life = "open"
    /\ op' = "add_transparent_input"
    /\ IF is_some(transparent_input)
       THEN /\ ret' = Err("InvalidTransaction", "mint can only have one transparent input")
            /\ UNCHANGED transparent_input
       ELSE /\ transparent_input' = Some([amount |-> value])
            /\ ret' = Ok
    /\ UNCHANGED <<life, scaling_exponent, scaling_factor, value_balance, anchor, spends,
                   outputs, transparent_output, txn_type, prover_calls, sighash>>

add_transparent_output(to, value) ==
    /\ life = "open"
    /\ op' = "add_transparent_output"
    /\ IF is_some(transparent_output)
       THEN /\ ret' = Err("InvalidTransaction", "burn can only have one transparent output")
            /\ UNCHANGED transparent_output
       ELSE /\ transparent_output' = Some([address |-> to, amount |-> value])
            /\ ret' = Ok
    /\ UNCHANGED <<life, scaling_exponent, scaling_factor, value_balance, anchor, spends,
                   outputs, transparent_input, txn_type, prover_calls, sighash>>


-----------------------------------------------------------------------------
(* Builder::transaction_type *)

\* mutant: the burn arm does not bound the number of shielded outputs
transaction_type_burn_unbounded(has_tin, n_spends, n_outputs, has_tout) ==
    IF has_tin
    THEN IF n_outputs = 1 /\ n_spends = 0 /\ ~has_tout
         THEN OkBuild("Mint", <<>>)
         ELSE Err("InvalidTransaction", "mint must be a transaction to 1 shielded output")
    ELSE IF has_tout
    THEN IF n_spends = 1 /\ ~has_tin
         THEN OkBuild("Burn", <<>>)
         ELSE Err("InvalidTransaction",
                  "burn must be a transaction from 1 shielded output, to max 1 shielded output")
    ELSE IF n_spends >= 1 /\ n_outputs >= 1
         THEN OkBuild("Transfer", <<>>)
         ELSE Err("InvalidTransaction", "invalid mint, burn, or transfer")

transaction_type(has_tin, n_spends, n_outputs, has_tout) ==
    IF has_tin
    THEN IF n_outputs = 1 /\ n_spends = 0 /\ ~has_tout
         THEN OkBuild("Mint", <<>>)
         ELSE Err("InvalidTransaction", "mint must be a transaction to 1 shielded output")
    ELSE IF has_tout
    THEN IF n_spends = 1 /\ n_outputs <= 1 /\ ~has_tin
         THEN OkBuild("Burn", <<>>)
         ELSE Err("InvalidTransaction",
                  "burn must be a transaction from 1 shielded output, to max 1 shielded output")
    ELSE IF n_spends >= 1 /\ n_outputs >= 1
         THEN OkBuild("Transfer", <<>>)
         ELSE Err("InvalidTransaction", "invalid mint, burn, or transfer")

-----------------------------------------------------------------------------
(* Descriptors. *)

GROTH_PROOF_SIZE == 192
ENC_CIPHERTEXT_SIZE == 580
OUT_CIPHERTEXT_SIZE == 80
WORD == 32
SIGNATURE_SIZE == 64
PAD_SIZE == 12
I64_SIZE == 8

Chunk(f, len, val) == [f |-> f, len |-> len, val |-> val]

\* a call to the proving capability or to a signer: idx is the leg the call is for, hash
\* the sighash it is given (None for the proofs, which take none)
Call(name, idx, ok, hash) == [call |-> name, idx |-> idx, ok |-> ok, hash |-> hash]

\* mutant: the descriptor's anchor is not the root of the spend's merkle path
SpendDescription_other_anchor(spend) ==
    [nullifier |-> Chunk("nullifier", WORD, <<spend.root>> \o spend.value),
     anchor |-> Chunk("anchor", WORD, <<spend.root + spend.alpha>>),
     cv |-> Chunk("spend_cv", WORD, <<spend.alpha>> \o spend.value),
     rk |-> Chunk("rk", WORD, <<spend.alpha>>),
     zkproof |-> Chunk("spend_zkproof", GROTH_PROOF_SIZE, <<spend.root, spend.alpha>> \o spend.value),
     spend_auth_sig |-> None]

\* SaplingSpend::generate_spend_proof, when prover.spend_proof returns Ok
SpendDescription(spend) ==
    [nullifier |-> Chunk("nullifier", WORD, <<spend.root>> \o spend.value),
     anchor |-> Chunk("anchor", WORD, <<spend.root>>),
     cv |-> Chunk("spend_cv", WORD, <<spend.alpha>> \o spend.value),
     rk |-> Chunk("rk", WORD, <<spend.alpha>>),
     zkproof |-> Chunk("spend_zkproof", GROTH_PROOF_SIZE, <<spend.root, spend.alpha>> \o spend.value),
     spend_auth_sig |-> None]

\* SaplingOutput::generate_output_proof
OutputDescription(output) ==
    [cmu |-> Chunk("cmu", WORD, <<output.rcm>> \o output.value),
     cv |-> Chunk("output_cv", WORD, <<output.rcm>> \o output.value),
     ephemeral_key |-> Chunk("epk", WORD, <<output.rcm>>),
     enc_ciphertext |-> Chunk("enc_ciphertext", ENC_CIPHERTEXT_SIZE, <<output.rcm>> \o output.value),
     out_ciphertext |-> Chunk("out_ciphertext", OUT_CIPHERTEXT_SIZE, <<output.rcm>> \o output.value),
     zkproof |-> Chunk("output_zkproof", GROTH_PROOF_SIZE, <<output.rcm>> \o output.value)]

\* mutant: every descriptor is signed with the randomization scalar of the first spend
generate_spend_sig_first_spend(desc, spend, hash) ==
    [desc EXCEPT !.spend_auth_sig = Some(Chunk("spend_auth_sig", SIGNATURE_SIZE, <<1>>))]

\* sapling::spend_sig(ask, alpha, sighash): SpendDescription::generate_spend_sig
generate_spend_sig(desc, spend, hash) ==
    [desc EXCEPT !.spend_auth_sig = Some(Chunk("spend_auth_sig", SIGNATURE_SIZE, <<spend.alpha>>))]

BindingSig(balance) == Chunk("binding_sig", SIGNATURE_SIZE, balance.mag)

\* mutant: a failure of prover.binding_sig is ignored
MapBindingSigErr_ignored(ok) == Ok

\* prover.binding_sig(..).map_err(|_| Error::BindingSig)
MapBindingSigErr(ok) == IF ok THEN Ok ELSE Err("BindingSig", "")

Padding == Chunk("zero", PAD_SIZE, Zeros(PAD_SIZE))

\* keys::Address::as_tvm_bytes: the 21-byte address without its first byte
TVM_ADDRESS_SIZE == 20

\* self.contract_address.as_tvm_bytes(); the address is an opaque argument of Builder::new
ContractAddress == Chunk("contract_address", TVM_ADDRESS_SIZE, <<>>)

\* mutant: the anchor is written before the nullifier
EncodeSpend_anchor_first(d) == <<d.anchor, d.nullifier, d.cv, d.rk, d.zkproof>>

\* encodeSpendDescriptionWithoutSpendAuthSig
EncodeSpend(d) == <<d.nullifier, d.anchor, d.cv, d.rk, d.zkproof>>
\* encodeReceiveDescriptionWithoutC
EncodeReceive(d) == <<d.cmu, d.cv, d.ephemeral_key, d.zkproof>>
\* encodeCencCout
EncodeC(d) == <<d.enc_ciphertext, d.out_ciphertext, Padding>>

RECURSIVE Flatten(_)
Flatten(ss) == IF ss = <<>> THEN <<>> ELSE Head(ss) \o Flatten(Tail(ss))

\* what build leaves behind: its result, the classifier's answer, the calls made, the sighash
Outcome(r, kind, calls, hash) == [ret |-> r, txn_type |-> kind, calls |-> calls, sighash |-> hash]

-----------------------------------------------------------------------------
(* Builder::build_mint *)

\* the first word of the mint parameter: U256::exp10(18)
MintRawValue(shielded_output_value) == exp10(18)

MintAmountsMatch(product, transparent_input_value) == product = transparent_input_value

build_mint(bs_ok) ==
    IF is_positive(value_balance) THEN Outcome(Err("InvalidAmount", ""), "Mint", <<>>, None)
    ELSE
    LET transparent_input_value == unwrap(transparent_input).amount
        shielded_output_value == SNeg(value_balance)
        product == DMul(shielded_output_value.mag, scaling_factor)
    IN  IF ~U256Fits(product)
        THEN Outcome(Panic("arithmetic operation overflow"), "Mint", <<>>, None)
        ELSE IF ~MintAmountsMatch(product, transparent_input_value)
        THEN Outcome(Err("InvalidTransaction", "input & output amount mismatch"), "Mint", <<>>, None)
        ELSE
        LET output_desc == OutputDescription(outputs[1])
            transaction_data ==
                <<ContractAddress,
                  Chunk("value", I64_SIZE, to_big_endian(shielded_output_value.mag, I64_SIZE))>>
                \o EncodeReceive(output_desc) \o EncodeC(output_desc)
            calls == <<Call("output_proof", 1, TRUE, None),
                       Call("binding_sig", 0, bs_ok, Some(transaction_data))>>
            parameter ==
                <<Chunk("value", WORD, to_big_endian(MintRawValue(shielded_output_value.mag), WORD))>>
                \o EncodeReceive(output_desc)
                \o <<BindingSig(value_balance)>>
                \o EncodeC(output_desc)
        IN  IF MapBindingSigErr(bs_ok) # Ok
            THEN Outcome(MapBindingSigErr(bs_ok), "Mint", calls, Some(transaction_data))
            ELSE Outcome(OkBuild("Mint", parameter), "Mint", calls, Some(transaction_data))

-----------------------------------------------------------------------------
(* abi_encode_transfer and Builder::build_transfer *)

\* mutant: the elements of an array are written last to first
AbiArray_reversed(name, elems) ==
    <<Chunk(name, WORD, Big(Len(elems)))>>
    \o Flatten([i \in 1..Len(elems) |-> elems[Len(elems) + 1 - i]])

\* ethabi: a dynamic array of fixed-size elements is its length word, then the elements in order
AbiArray(name, elems) == <<Chunk(name, WORD, Big(Len(elems)))>> \o Flatten(elems)

\* bytes an encoded array takes
AbiArrayBytes(n, elem_words) == WORD * (1 + n * elem_words)

SPEND_WORDS == 10
SIG_WORDS == 2
OUTPUT_WORDS == 9
C_WORDS == 21
\* the head: four array offsets and the two words of the binding signature
HEAD_WORDS == 4 + SIG_WORDS

abi_encode_transfer(spend_descs, output_descs, binding_sig) ==
    LET ns == Len(spend_descs)
        no == Len(output_descs)
        input == [i \in 1..ns |-> EncodeSpend(spend_descs[i])]
        spend_auth_sig == [i \in 1..ns |-> <<unwrap(spend_descs[i].spend_auth_sig)>>]
        output == [i \in 1..no |-> EncodeReceive(output_descs[i])]
        c == [i \in 1..no |-> EncodeC(output_descs[i])]
        off1 == WORD * HEAD_WORDS
        off2 == off1 + AbiArrayBytes(ns, SPEND_WORDS)
        off3 == off2 + AbiArrayBytes(ns, SIG_WORDS)
        off4 == off3 + AbiArrayBytes(no, OUTPUT_WORDS)
    IN  <<Chunk("offset_input", WORD, Big(off1)),
          Chunk("offset_spend_auth_sig", WORD, Big(off2)),
          Chunk("offset_output", WORD, Big(off3)),
          binding_sig,
          Chunk("offset_c", WORD, Big(off4))>>
        \o AbiArray("len_input", input)
        \o AbiArray("len_spend_auth_sig", spend_auth_sig)
        \o AbiArray("len_output", output)
        \o AbiArray("len_c", c)

\* mutant: the balance check is skipped
TransferBalanced_unchecked(balance) == TRUE

\* mutant: only a negative balance is rejected
TransferBalanced_nonnegative(balance) == ~is_negative(balance)

\* the balance check of build_transfer
TransferBalanced(balance) == balance = AmountZero

\* fail_at: the first spend whose prover.spend_proof returns Err (0: none does)
build_transfer(fail_at, bs_ok) ==
    IF ~TransferBalanced(value_balance)
    THEN Outcome(Err("InvalidAmount", ""), "Transfer", <<>>, None)
    ELSE IF fail_at # 0
    THEN Outcome(Panic("proving should not fail"), "Transfer",
                 [i \in 1..fail_at |-> Call("spend_proof", i, i # fail_at, None)], None)
    ELSE
    LET ns == Len(spends)
        no == Len(outputs)
        spend_descs == [i \in 1..ns |-> SpendDescription(spends[i])]
        output_descs == [i \in 1..no |-> OutputDescription(outputs[i])]
        transaction_data ==
            <<ContractAddress>>
            \o Flatten([i \in 1..ns |-> EncodeSpend(spend_descs[i])])
            \o Flatten([i \in 1..no |-> EncodeReceive(output_descs[i])])
            \o Flatten([i \in 1..no |-> EncodeC(output_descs[i])])
        signed == [i \in 1..ns |-> generate_spend_sig(spend_descs[i], spends[i], transaction_data)]
        calls == [i \in 1..ns |-> Call("spend_proof", i, TRUE, None)]
                 \o [i \in 1..no |-> Call("output_proof", i, TRUE, None)]
                 \o [i \in 1..ns |-> Call("spend_sig", i, TRUE, Some(transaction_data))]
                 \o <<Call("binding_sig", 0, bs_ok, Some(transaction_data))>>
    IN  IF MapBindingSigErr(bs_ok) # Ok
        THEN Outcome(MapBindingSigErr(bs_ok), "Transfer", calls, Some(transaction_data))
        ELSE Outcome(OkBuild("Transfer", abi_encode_transfer(signed, output_descs, BindingSig(value_balance))),
                     "Transfer", calls, Some(transaction_data))

-----------------------------------------------------------------------------
(* Builder::build_burn *)

build_burn ==
    IF is_negative(value_balance) THEN Outcome(Err("InvalidAmount", ""), "Burn", <<>>, None)
    ELSE
    LET transparent_output_value == unwrap(transparent_output).amount
        shielded_input_value == value_balance
        product == DMul(shielded_input_value.mag, scaling_factor)
    IN  IF ~U256Fits(product)
        THEN Outcome(Panic("arithmetic operation overflow"), "Burn", <<>>, None)
        ELSE IF product # transparent_output_value
        THEN Outcome(Err("InvalidTransaction", "input & output amount mismatch"), "Burn", <<>>, None)
        ELSE Outcome(Panic("not implemented"), "Burn", <<>>, None)

-----------------------------------------------------------------------------
(* Builder::build *)

BuildOutcome(fail_at, bs_ok) ==
    LET t == transaction_type(is_some(transparent_input), Len(spends), Len(outputs),
                              is_some(transparent_output))
    IN  IF t.tag = "Err" THEN Outcome(t, "Err", <<>>, None)
        ELSE IF t.kind = "Mint" THEN build_mint(bs_ok)
        ELSE IF t.kind = "Transfer" THEN build_transfer(fail_at, bs_ok)
        ELSE build_burn

\* mutant: build borrows the Builder instead of taking it
LifeAfterBuild_borrowed(r) == "open"

\* build(self, ..) takes the Builder by value: the caller has no Builder left afterwards
LifeAfterBuild(r) == IF r.tag = "Panic" THEN "aborted" ELSE "consumed"

build(fail_at, bs_ok) ==
    /\ life = "open"
    /\ op' = "build"
    /\ LET o == BuildOutcome(fail_at, bs_ok)
       IN /\ ret' = o.ret
          /\ txn_type' = o.txn_type
          /\ prover_calls' = o.calls
          /\ sighash' = o.sighash
          /\ life' = LifeAfterBuild(o.ret)
    /\ UNCHANGED <<scaling_exponent, scaling_factor, value_balance, anchor, spends, outputs,
                   transparent_input, transparent_output>>

-----------------------------------------------------------------------------

AddSpend ==
    /\ \E v \in NoteValues, r \in Roots : add_sapling_spend(v, r, FsRandom(spends))
    /\ UNCHANGED server_vars
AddOutput ==
    /\ \E to \in ZAddresses, v \in OutputValues : add_sapling_output(to, v, FsRandom(outputs))
    /\ UNCHANGED server_vars
AddTransparentInput ==
    /\ \E v \in TransparentAmounts : add_transparent_input(v)
    /\ UNCHANGED server_vars
AddTransparentOutput ==
    /\ \E to \in Addresses, v \in TransparentAmounts : add_transparent_output(to, v)
    /\ UNCHANGED server_vars

\* the proving capability may fail any of its calls
Build ==
    /\ \E fail_at \in 0..Len(spends), bs_ok \in BOOLEAN : build(fail_at, bs_ok)
    /\ UNCHANGED server_vars

Next ==
    \/ AddSpend
    \/ AddOutput
    \/ AddTransparentInput
    \/ AddTransparentOutput
    \/ Build

Spec == Init /\ [][Next]_vars

-----------------------------------------------------------------------------
(* The GraphQL front end: opentron/src/graphql/server.rs *)

Methods == {"GET", "POST", "PUT"}
Paths == {"/", "/playground", "/graphql", "/other"}

\* a request: its method, its path, and which of the two logged headers it carries
Request(method, path, user_agent, x_forwarded_for) ==
    [method |-> method, path |-> path, user_agent |-> user_agent,
     x_forwarded_for |-> x_forwarded_for]

Requests ==
    {Request(m, p, ua, xff) : m \in Methods, p \in Paths, ua \in BOOLEAN, xff \in BOOLEAN}

Response(status, body) == [status |-> status, body |-> body]

\* StatusCode::NOT_FOUND with Body::empty()
NotFound == Response(404, "")

\* the match on (method, path); exec_ok: whether juniper executes the request (its
\* response is 200) or rejects it (400)
route(r, exec_ok) ==
    IF r.method = "GET" /\ r.path = "/" THEN Response(200, "graphiql")
    ELSE IF r.method = "GET" /\ r.path = "/playground" THEN Response(200, "playground")
    ELSE IF r.method \in {"GET", "POST"} /\ r.path = "/graphql"
    THEN Response(IF exec_ok THEN 200 ELSE 400, "graphql")
    ELSE NotFound

\* the service_fn closure: it logs the request, unwrapping the user-agent header, and
\* returns the future of the async block. The unwrap of an absent header panics and the
\* connection's task ends with no response written. The future is polled at once: it
\* completes in this step, or (later) it is left pending at the await of
\* juniper_hyper::graphql, which reads the request's body and executes it.
service_fn(r, exec_ok, later) ==
    /\ server = "serving"
    /\ ~signalled
    /\ served < MaxRequests
    /\ req' = Some(r)
    /\ served' = served + 1
    /\ IF ~r.user_agent
       THEN /\ conn' = "aborted"
            /\ response' = None
            /\ UNCHANGED pending
       ELSE IF later /\ route(r, exec_ok).body = "graphql"
       THEN /\ pending' = Append(pending, r)
            /\ UNCHANGED <<conn, response>>
       ELSE /\ conn' = "responded"
            /\ response' = Some(route(r, exec_ok))
            /\ UNCHANGED pending
    /\ UNCHANGED <<enable, endpoint_ok, server, bound, signalled>>

\* the i-th pending future completes: the async block returns the response of its request
respond(i, exec_ok) ==
    /\ server = "serving"
    /\ i \in 1..Len(pending)
    /\ conn' = "responded"
    /\ response' = Some(route(pending[i], exec_ok))
    /\ pending' = [k \in 1..(Len(pending) - 1) |-> IF k < i THEN pending[k] ELSE pending[k + 1]]
    /\ UNCHANGED <<enable, endpoint_ok, server, bound, req, served, signalled>>

\* graphql_server, up to the server being bound; bind_ok: whether the address can be bound
\* (Server::bind panics when it cannot)
graphql_server(bind_ok) ==
    /\ server = "init"
    /\ IF ~enable
       THEN server' = "returned" /\ UNCHANGED bound
       ELSE IF ~endpoint_ok
       THEN server' = "panicked" /\ UNCHANGED bound
       ELSE /\ bound' = TRUE
            /\ server' = IF bind_ok THEN "serving" ELSE "panicked"
    /\ UNCHANGED <<enable, endpoint_ok, req, conn, response, served, pending, signalled>>

\* with_graceful_shutdown: the shutdown signal stops the server from taking requests; the
\* server future completes, and graphql_server returns, once no request is in flight
graceful_shutdown ==
    /\ server = "serving"
    /\ ~signalled
    /\ signalled' = TRUE
    /\ server' = IF pending = <<>> THEN "stopped" ELSE "serving"
    /\ UNCHANGED <<enable, endpoint_ok, bound, req, conn, response, served, pending>>

\* the last request in flight was answered after the signal: graphql_server returns
graceful_return ==
    /\ server = "serving"
    /\ signalled
    /\ pending = <<>>
    /\ server' = "stopped"
    /\ UNCHANGED <<enable, endpoint_ok, bound, req, conn, response, served, pending, signalled>>

UnchangedBuilder ==
    UNCHANGED <<life, scaling_exponent, scaling_factor, value_balance, anchor, spends, outputs,
                transparent_input, transparent_output, op, ret, txn_type, prover_calls, sighash>>

ServerInit ==
    /\ enable \in BOOLEAN
    /\ endpoint_ok \in BOOLEAN
    /\ server = "init"
    /\ bound = FALSE
    /\ req = None
    /\ conn = "idle"
    /\ response = None
    /\ served = 0
    /\ pending = <<>>
    /\ signalled = FALSE
    /\ life = "open"
    /\ scaling_exponent \in ScalingExponents
    /\ scaling_factor = exp10(scaling_exponent)
    /\ value_balance = AmountZero
    /\ anchor = None
    /\ spends = <<>>
    /\ outputs = <<>>
    /\ transparent_input = None
    /\ transparent_output = None
    /\ op = "new"
    /\ ret = NoRet
    /\ txn_type = "None"
    /\ prover_calls = <<>>
    /\ sighash = None

StartServer == (\E bind_ok \in BOOLEAN : graphql_server(bind_ok)) /\ UnchangedBuilder
Serve ==
    /\ \E r \in Requests, exec_ok \in BOOLEAN, later \in BOOLEAN : service_fn(r, exec_ok, later)
    /\ UnchangedBuilder
Respond ==
    /\ \E i \in 1..Len(pending), exec_ok \in BOOLEAN : respond(i, exec_ok)
    /\ UnchangedBuilder
Shutdown == graceful_shutdown /\ UnchangedBuilder
Return == graceful_return /\ UnchangedBuilder

ServerNext ==
    \/ StartServer
    \/ Serve
    \/ Respond
    \/ Shutdown
    \/ Return

ServerSpec == ServerInit /\ [][ServerNext]_vars
-----------------------------------------------------------------------------
(* Properties. *)

RECURSIVE SumValues(_)
SumValues(legs) == IF legs = <<>> THEN <<>> ELSE DAdd(Head(legs).value, SumValues(Tail(legs)))

\* sum of the spend note values minus sum of the output values
DifferenceOf(ss, os) == SSub(SInt(FALSE, SumValues(ss)), SInt(FALSE, SumValues(os)))
ShieldedDifference == DifferenceOf(spends, outputs)

ErrTooManySpends == Err("InvalidTransaction", "too many sapling spends")
ErrTooManyOutputs == Err("InvalidTransaction", "too many sapling output")
ErrAmountMismatch == Err("InvalidTransaction", "input & output amount mismatch")

\* C1: a Builder never holds more than 2 spends or 2 outputs, and an add_sapling_spend
\* (add_sapling_output) called with 2 spends (outputs) held returns the structural-limit
\* error whatever its arguments (a mismatching root, an invalid address, an invalid
\* amount) and leaves the Builder unchanged.
C1_LimitOfTwo ==
    [][ /\ Len(spends') <= 2
        /\ Len(outputs') <= 2
        /\ \A v \in NoteValues, r \in Roots :
              (Len(spends) = 2 /\ add_sapling_spend(v, r, FsRandom(spends)))
                  => (ret' = ErrTooManySpends /\ builder' = builder)
        /\ \A to \in ZAddresses, v \in OutputValues :
              (Len(outputs) = 2 /\ add_sapling_output(to, v, FsRandom(outputs)))
                  => (ret' = ErrTooManyOutputs /\ builder' = builder)
      ]_vars

C1_Witness ==
    /\ op = "add_sapling_spend"
    /\ ret = ErrTooManySpends
    /\ Len(spends) = 2
    /\ Len(outputs) = 2

\* C2: every spend held has a path root equal to the Builder's anchor, which is the root
\* of the first spend; no two spends held resolve to different roots.
C2_SharedAnchor ==
    /\ \A i \in 1..Len(spends) : is_some(anchor) /\ spends[i].root = unwrap(anchor)
    /\ spends # <<>> => anchor = Some(spends[1].root)
    /\ \A i, j \in 1..Len(spends) : spends[i].root = spends[j].root

C2_Witness ==
    /\ Len(spends) = 2
    /\ anchor = Some(MaxRoot)
    /\ spends[1].value # spends[2].value

\* C3: with one spend held, an add_sapling_spend whose root differs from the anchor
\* returns AnchorMismatch and leaves the spend count, the value balance and the anchor
\* as they were.
C3_AnchorMismatchRejected ==
    [][ \A v \in NoteValues, r \in Roots :
            ( /\ Len(spends) = 1
              /\ is_some(anchor)
              /\ r # unwrap(anchor)
              /\ add_sapling_spend(v, r, FsRandom(spends)) )
                => /\ ret' = Err("AnchorMismatch", "")
                   /\ Len(spends') = 1
                   /\ spends' = spends
                   /\ value_balance' = value_balance
                   /\ anchor' = anchor
      ]_vars

C3_Witness ==
    /\ op = "add_sapling_spend"
    /\ ret = Err("AnchorMismatch", "")
    /\ Len(spends) = 1
    /\ value_balance = SInt(FALSE, spends[1].value)

\* C4: the value balance is the sum of the note values of the spends held minus the sum
\* of the values of the outputs held, after successful and failed adds alike, and the
\* transparent adds never change it.
C4_ValueBalance ==
    [][ /\ value_balance' = DifferenceOf(spends', outputs')
        /\ op' \in {"add_transparent_input", "add_transparent_output"}
              => value_balance' = value_balance
      ]_vars

C4_Witness ==
    /\ Len(spends) = 2
    /\ Len(outputs) = 1
    /\ is_some(transparent_input)
    /\ op = "add_sapling_output"
    /\ ret.tag = "Err"
    /\ value_balance = SInt(FALSE, <<1>>)

\* the classifier's table, from the leg cardinalities
ExpectedKind(has_tin, ns, no, has_tout) ==
    IF has_tin THEN (IF no = 1 /\ ns = 0 /\ ~has_tout THEN "Mint" ELSE "Err")
    ELSE IF has_tout THEN (IF ns = 1 /\ no <= 1 THEN "Burn" ELSE "Err")
    ELSE IF ns >= 1 /\ no >= 1 THEN "Transfer" ELSE "Err"

\* C5: build classifies by the leg cardinalities alone: Mint iff a transparent input, 1
\* output, 0 spends and no transparent output; Burn iff no transparent input, a
\* transparent output, 1 spend and at most 1 output; Transfer iff no transparent leg and
\* at least 1 spend and 1 output; every other shape is a structural error.
C5_Classifier ==
    op = "build" =>
        /\ txn_type = ExpectedKind(is_some(transparent_input), Len(spends), Len(outputs),
                                   is_some(transparent_output))
        /\ txn_type = "Err" => (ret.tag = "Err" /\ ret.err = "InvalidTransaction")
        /\ ret.tag = "Ok" => ret.kind = txn_type

C5_Witness ==
    /\ op = "build"
    /\ is_some(transparent_input)
    /\ is_some(transparent_output)
    /\ Len(spends) = 1
    /\ Len(outputs) = 1
    /\ txn_type = "Err"

\* C6: a Transfer build returns a payload only if the spend values minus the output
\* values is zero, and fails with InvalidAmount, with no payload, whenever it is not.
C6_TransferBalance ==
    (op = "build" /\ txn_type = "Transfer") =>
        /\ ret.tag = "Ok" => ShieldedDifference = AmountZero
        /\ ShieldedDifference # AmountZero => ret = Err("InvalidAmount", "")

C6_Witness ==
    /\ op = "build"
    /\ txn_type = "Transfer"
    /\ ret.tag = "Ok"
    /\ ret.payload # <<>>
    /\ Len(spends) = 2
    /\ ShieldedDifference = AmountZero

\* the shielded output value of a Mint, scaled by 10^scaling_exponent (an unbounded integer)
ScaledMintValue == DMul(outputs[1].value, exp10(scaling_exponent))

\* C7: a Mint build returns a payload only if the output value times 10^scaling_exponent
\* equals the transparent input amount, and fails with the amount-mismatch error, with no
\* payload, whenever they differ.
C7_MintAmount ==
    (op = "build" /\ txn_type = "Mint") =>
        /\ ret.tag = "Ok" => ScaledMintValue = unwrap(transparent_input).amount
        /\ ScaledMintValue # unwrap(transparent_input).amount => ret = ErrAmountMismatch

\* C8: the payload of a successful Mint build starts with the 32-byte big-endian scaled
\* output value, equal to the transparent input amount, followed by the output
\* commitment, value commitment, ephemeral key, proof, binding signature, note
\* ciphertext, outgoing ciphertext and 12 zero bytes.
C8_MintPayload ==
    (op = "build" /\ txn_type = "Mint" /\ ret.tag = "Ok") =>
        /\ ret.payload[1] = Chunk("value", 32, to_big_endian(ScaledMintValue, 32))
        /\ ret.payload[1].val = to_big_endian(unwrap(transparent_input).amount, 32)
        /\ [i \in 2..Len(ret.payload) |-> ret.payload[i].f] =
               [i \in 2..9 |-> <<"", "cmu", "output_cv", "epk", "output_zkproof", "binding_sig",
                                 "enc_ciphertext", "out_ciphertext", "zero">>[i]]

\* C9: build ends by returning (kind, payload) or an error of the taxonomy, never by
\* aborting, whatever the proving capability does.
C9_BuildReturns ==
    op = "build" =>
        \/ ret.tag = "Ok" /\ ret.kind \in {"Mint", "Transfer", "Burn"}
        \/ ret.tag = "Err" /\ ret.err \in Errors

\* C10: when the proving capability fails a spend proof, build returns Error::SpendProof
\* and no payload.
C10_SpendProofError ==
    (op = "build" /\ \E i \in 1..Len(prover_calls) :
                        prover_calls[i].call = "spend_proof" /\ ~prover_calls[i].ok)
        => ret = Err("SpendProof", "")

\* the proving capability failed to produce the binding signature
BindingSigFailed ==
    \E i \in 1..Len(prover_calls) : prover_calls[i].call = "binding_sig" /\ ~prover_calls[i].ok

\* C11: when the proving capability fails to produce the binding signature in a Mint or
\* Transfer build, build returns Error::BindingSig, which is none of the spend-proof,
\* structural or amount errors, and returns no payload.
C11_BindingSigError ==
    (op = "build" /\ BindingSigFailed) =>
        /\ txn_type \in {"Mint", "Transfer"}
        /\ ret.tag = "Err"
        /\ ret.err = "BindingSig"
        /\ ret.err \notin {"SpendProof", "InvalidTransaction", "InvalidAmount", "AnchorMismatch",
                            "InvalidAddress"}
        /\ ret.payload = <<>>
        /\ ret.kind = ""

C11_Witness ==
    /\ op = "build"
    /\ BindingSigFailed
    /\ txn_type = "Transfer"
    /\ Len(spends) = 2
    /\ ret = Err("BindingSig", "")

\* the value balance of a Burn, scaled by 10^scaling_exponent (an unbounded integer)
ScaledBurnValue == DMul(value_balance.mag, exp10(scaling_exponent))

\* C12: a Burn build with a negative value balance fails with InvalidAmount, and one whose
\* value balance times the scaling factor differs from the transparent output amount fails
\* with the amount-mismatch error; nothing is requested from the proving capability.
C12_BurnPrecondition ==
    (op = "build" /\ txn_type = "Burn") =>
        /\ is_negative(value_balance) => ret = Err("InvalidAmount", "")
        /\ (~is_negative(value_balance)
              /\ ScaledBurnValue # unwrap(transparent_output).amount) => ret = ErrAmountMismatch
        /\ ret.tag = "Err" =>
              (is_negative(value_balance)
                  \/ ScaledBurnValue # unwrap(transparent_output).amount)
        /\ prover_calls = <<>>

(* Decoding a Transfer payload by the documented layout:                    *)
(*   transfer(bytes32[10][] input, bytes32[2][] spendAuthoritySignature,    *)
(*            bytes32[9][] output, bytes32[2] bindingSignature,             *)
(*            bytes32[21][] c)                                              *)

RECURSIVE ToInt(_)
ToInt(a) == IF a = <<>> THEN 0 ELSE ToInt(SubSeq(a, 1, Len(a) - 1)) * 10000 + a[Len(a)]

\* the byte at which the k-th chunk of a byte string starts
RECURSIVE StartOf(_, _)
StartOf(bytes, k) == IF k = 1 THEN 0 ELSE StartOf(bytes, k - 1) + bytes[k - 1].len

NoChunk == Chunk("none", 0, <<>>)

\* the field of `len` bytes read at byte `off`
ReadAt(bytes, off, len) ==
    LET ks == {k \in 1..Len(bytes) : StartOf(bytes, k) = off /\ bytes[k].len = len}
    IN IF ks = {} THEN NoChunk ELSE bytes[CHOOSE k \in ks : TRUE]

ReadWord(bytes, off) == ToInt(ReadAt(bytes, off, 32).val)

\* the elements of the dynamic array whose offset is the head word `head`: each element is
\* `words` words, read as the fields of the byte lengths `layout`
DecodeArray(bytes, head, words, layout) ==
    LET at == ReadWord(bytes, 32 * head)
        n == ReadWord(bytes, at)
    IN [i \in 1..n |->
          [j \in 1..Len(layout) |->
              ReadAt(bytes, at + 32 + (i - 1) * words * 32 + layout[j].off, layout[j].len)]]

DecodedSpends(bytes) ==
    DecodeArray(bytes, 0, 10,
                <<[off |-> 0, len |-> 32], [off |-> 32, len |-> 32], [off |-> 64, len |-> 32],
                  [off |-> 96, len |-> 32], [off |-> 128, len |-> 192]>>)

DecodedSpendSigs(bytes) == DecodeArray(bytes, 1, 2, <<[off |-> 0, len |-> 64]>>)

DecodedOutputs(bytes) ==
    DecodeArray(bytes, 2, 9,
                <<[off |-> 0, len |-> 32], [off |-> 32, len |-> 32], [off |-> 64, len |-> 32],
                  [off |-> 96, len |-> 192]>>)

DecodedBindingSig(bytes) == ReadAt(bytes, 32 * 3, 64)

DecodedCiphertexts(bytes) ==
    DecodeArray(bytes, 5, 21, <<[off |-> 0, len |-> 580], [off |-> 580, len |-> 80]>>)

\* C13: decoding a Transfer payload by the documented layout gives, at every index i, the
\* nullifier, anchor, value commitment, randomized key and proof of the descriptor of the
\* i-th spend added, the signature made for that spend, and the commitments, ephemeral
\* key, proof and ciphertexts of the descriptor of the i-th output added.
C13_TransferRoundTrip ==
    (op = "build" /\ txn_type = "Transfer" /\ ret.tag = "Ok") =>
        LET bytes == ret.payload
            ds == DecodedSpends(bytes)
            dsig == DecodedSpendSigs(bytes)
            do == DecodedOutputs(bytes)
            dc == DecodedCiphertexts(bytes)
        IN  /\ Len(ds) = Len(spends)
            /\ Len(dsig) = Len(spends)
            /\ Len(do) = Len(outputs)
            /\ Len(dc) = Len(outputs)
            /\ \A i \in 1..Len(spends) :
                  LET d == SpendDescription(spends[i])
                  IN /\ ds[i] = <<d.nullifier, d.anchor, d.cv, d.rk, d.zkproof>>
                     /\ dsig[i] = <<Chunk("spend_auth_sig", 64, <<spends[i].alpha>>)>>
            /\ \A i \in 1..Len(outputs) :
                  LET d == OutputDescription(outputs[i])
                  IN /\ do[i] = <<d.cmu, d.cv, d.ephemeral_key, d.zkproof>>
                     /\ dc[i] = <<d.enc_ciphertext, d.out_ciphertext>>
            /\ DecodedBindingSig(bytes) = BindingSig(value_balance)

C13_Witness ==
    /\ op = "build"
    /\ txn_type = "Transfer"
    /\ ret.tag = "Ok"
    /\ Len(spends) = 2
    /\ Len(outputs) = 2
    /\ spends[1].value # spends[2].value
    /\ outputs[1].value # outputs[2].value
    /\ Len(DecodedSpends(ret.payload)) = 2
    /\ Len(DecodedCiphertexts(ret.payload)) = 2

\* C14: no add_sapling_spend or add_sapling_output call aborts: a call with a negative
\* output value, an unconvertible note value, or a sum or difference that leaves the
\* Amount range returns InvalidAmount; a successful call has added the note value to
\* (subtracted the output value from) the value balance.
C14_InvalidAmountReturned ==
    [][ /\ \A v \in NoteValues, r \in Roots :
              add_sapling_spend(v, r, FsRandom(spends)) =>
                  /\ ret'.tag # "Panic"
                  /\ ( /\ ~TooManySpends(Len(spends))
                       /\ (is_some(anchor) => unwrap(anchor) = r)
                       /\ ( ~DLeq(v, MAX_MONEY)
                            \/ ~AmountInRange(SAdd(value_balance, SInt(FALSE, v))) ) )
                        => ret' = Err("InvalidAmount", "")
                  /\ ret' = Ok => value_balance' = SAdd(value_balance, SInt(FALSE, v))
        /\ \A to \in ZAddresses, v \in OutputValues :
              add_sapling_output(to, v, FsRandom(outputs)) =>
                  /\ ret'.tag # "Panic"
                  /\ ( /\ ~TooManyOutputs(Len(outputs))
                       /\ is_some(g_d(to))
                       /\ (v.neg \/ ~AmountInRange(SSub(value_balance, v))) )
                        => ret' = Err("InvalidAmount", "")
                  /\ ret' = Ok => value_balance' = SSub(value_balance, v)
      ]_vars

\* C15: add_transparent_input on a Builder that has a transparent input, and
\* add_transparent_output on one that has a transparent output, fail with a structural
\* error and leave the recorded amount and address and the rest of the Builder unchanged;
\* so a Builder never holds a second transparent leg on either side.
C15_OneTransparentLeg ==
    [][ /\ (is_some(transparent_input) /\ op' = "add_transparent_input") =>
              /\ ret'.tag = "Err"
              /\ ret'.err = "InvalidTransaction"
              /\ transparent_input' = transparent_input
              /\ builder' = builder
        /\ (is_some(transparent_output) /\ op' = "add_transparent_output") =>
              /\ ret'.tag = "Err"
              /\ ret'.err = "InvalidTransaction"
              /\ transparent_output' = transparent_output
              /\ builder' = builder
      ]_vars

C15_Witness ==
    /\ op = "add_transparent_input"
    /\ ret = Err("InvalidTransaction", "mint can only have one transparent input")
    /\ is_some(transparent_input)
    /\ is_some(transparent_output)
    /\ unwrap(transparent_input).amount # unwrap(transparent_output).amount

\* C16: build is called at most once on a Builder, and once it has been called, whether it
\* returned a payload or an error, no add and no further build happens on that Builder:
\* every operation starts from a Builder that is still owned and was never built.
C16_BuildOnce ==
    [][ /\ life = "open"
        /\ op # "build"
        /\ op' = "build" => life' # "open"
      ]_vars

C16_Witness ==
    /\ op = "build"
    /\ life = "consumed"
    /\ ret.tag = "Err"
    /\ Len(spends) = 2
    /\ is_some(transparent_input)

\* the calls of build that are given a sighash
HashedCalls == {i \in 1..Len(prover_calls) : prover_calls[i].call \in {"spend_sig", "binding_sig"}}

\* C17: the sighash preimage of a Transfer build is the contract address, then for each
\* spend in insertion order its descriptor's nullifier, anchor, value commitment,
\* randomized key and proof (no signature), then for each output in insertion order its
\* descriptor's note commitment, value commitment, ephemeral key and proof, then for each
\* output in insertion order its note ciphertext, outgoing ciphertext and 12 zero bytes;
\* every spend-authorization signature and the binding signature are given that sighash.
C17_SighashPreimage ==
    (op = "build" /\ txn_type = "Transfer" /\ is_some(sighash)) =>
        LET sd == [i \in 1..Len(spends) |-> SpendDescription(spends[i])]
            od == [i \in 1..Len(outputs) |-> OutputDescription(outputs[i])]
        IN  /\ unwrap(sighash) =
                  <<ContractAddress>>
                  \o Flatten([i \in 1..Len(spends) |->
                        <<sd[i].nullifier, sd[i].anchor, sd[i].cv, sd[i].rk, sd[i].zkproof>>])
                  \o Flatten([i \in 1..Len(outputs) |->
                        <<od[i].cmu, od[i].cv, od[i].ephemeral_key, od[i].zkproof>>])
                  \o Flatten([i \in 1..Len(outputs) |->
                        <<od[i].enc_ciphertext, od[i].out_ciphertext,
                          Chunk("zero", 12, Zeros(12))>>])
            /\ \A k \in 1..Len(unwrap(sighash)) : unwrap(sighash)[k].f # "spend_auth_sig"
            /\ \A i \in HashedCalls : prover_calls[i].hash = sighash
            /\ Cardinality(HashedCalls) = Len(spends) + 1

C17_Witness ==
    /\ op = "build"
    /\ txn_type = "Transfer"
    /\ is_some(sighash)
    /\ Len(spends) = 2
    /\ Len(outputs) = 2
    /\ Len(unwrap(sighash)) = 1 + 2 * 5 + 2 * 4 + 2 * 3
    /\ Cardinality(HashedCalls) = 3

\* the positions in prover_calls of the calls named `name` made for leg `idx`
CallsOf(name, idx) ==
    {k \in 1..Len(prover_calls) : prover_calls[k].call = name /\ prover_calls[k].idx = idx}

CallsNamed(name) == {k \in 1..Len(prover_calls) : prover_calls[k].call = name}

\* C18: in a Transfer build every spend descriptor is created unsigned and is signed at
\* most once, exactly once when the sighash has been computed, after every proof and with
\* that sighash; the binding signature is requested after all spends are signed; and in
\* the encoded payload the i-th signature is the one made with the randomization scalar
\* of the i-th spend, the spend of the i-th descriptor.
C18_SpendSignatures ==
    (op = "build" /\ txn_type = "Transfer") =>
        /\ \A i \in 1..Len(spends) :
              /\ SpendDescription(spends[i]).spend_auth_sig = None
              /\ Cardinality(CallsOf("spend_sig", i)) = IF is_some(sighash) THEN 1 ELSE 0
        /\ \A k \in CallsNamed("spend_sig") :
              /\ is_some(sighash)
              /\ prover_calls[k].hash = sighash
              /\ prover_calls[k].idx \in 1..Len(spends)
              /\ \A j \in CallsNamed("spend_proof") \cup CallsNamed("output_proof") : j < k
        /\ \A b \in CallsNamed("binding_sig") :
              /\ \A k \in CallsNamed("spend_sig") : k < b
              /\ Cardinality(CallsNamed("spend_sig")) = Len(spends)
        /\ ret.tag = "Ok" =>
              LET ds == DecodedSpends(ret.payload)
                  dsig == DecodedSpendSigs(ret.payload)
              IN /\ Len(dsig) = Len(spends)
                 /\ \A i \in 1..Len(spends) :
                       /\ dsig[i][1].f = "spend_auth_sig"
                       /\ dsig[i][1].val = <<spends[i].alpha>>
                       /\ dsig[i][1].val = ds[i][4].val

C18_Witness ==
    /\ op = "build"
    /\ txn_type = "Transfer"
    /\ ret.tag = "Ok"
    /\ Len(spends) = 2
    /\ Cardinality(CallsNamed("spend_sig")) = 2
    /\ Len(DecodedSpendSigs(ret.payload)) = 2
    /\ DecodedSpendSigs(ret.payload)[1] # DecodedSpendSigs(ret.payload)[2]

\* the state fails the balance check of its transaction kind
BalanceCheckFails ==
    \/ txn_type = "Transfer" /\ ShieldedDifference # AmountZero
    \/ txn_type = "Mint" /\ ScaledMintValue # unwrap(transparent_input).amount
    \/ txn_type = "Burn" /\ (is_negative(value_balance)
                               \/ ScaledBurnValue # unwrap(transparent_output).amount)

ProofCalls == CallsNamed("spend_proof") \cup CallsNamed("output_proof")
SignatureCalls == CallsNamed("spend_sig") \cup CallsNamed("binding_sig")

\* C19: build runs classify, balance check, proof generation, sighash, signatures and
\* encode in that order, each at most once: a build that fails at classification or at
\* the balance check has requested no proof and no signature and computed no sighash;
\* proofs come before the sighash and the signatures; a failed call is the last call made
\* and no payload follows it.
C19_PipelineOrder ==
    op = "build" =>
        /\ (txn_type = "Err" \/ BalanceCheckFails) =>
              /\ prover_calls = <<>>
              /\ sighash = None
              /\ ret.tag # "Ok"
        /\ (ret.tag = "Err" /\ ret.err \in {"InvalidTransaction", "InvalidAmount"}) =>
              (prover_calls = <<>> /\ sighash = None)
        /\ \A j \in ProofCalls, k \in SignatureCalls : j < k
        /\ SignatureCalls # {} => is_some(sighash)
        /\ \A j, k \in 1..Len(prover_calls) :
              (prover_calls[j].call = prover_calls[k].call
                  /\ prover_calls[j].idx = prover_calls[k].idx) => j = k
        /\ \A k \in 1..Len(prover_calls) :
              ~prover_calls[k].ok => (k = Len(prover_calls) /\ ret.tag # "Ok")
        /\ ret.tag = "Ok" => (prover_calls # <<>> /\ is_some(sighash))

C19_Witness ==
    /\ op = "build"
    /\ txn_type = "Transfer"
    /\ Len(spends) = 2
    /\ Len(outputs) = 2
    /\ BalanceCheckFails
    /\ ret = Err("InvalidAmount", "")
    /\ prover_calls = <<>>

\* C20: in a Transfer build, the anchor of every spend descriptor, as recomputed from the
\* spend's merkle path during proof generation, is the anchor the Builder holds since its
\* first spend was added; the anchors decoded from one payload are all that anchor.
C20_DescriptorAnchors ==
    (op = "build" /\ txn_type = "Transfer" /\ ret.tag = "Ok") =>
        LET ds == DecodedSpends(ret.payload)
        IN  /\ is_some(anchor)
            /\ Len(ds) = Len(spends)
            /\ \A i \in 1..Len(spends) :
                  /\ SpendDescription(spends[i]).anchor.val = <<unwrap(anchor)>>
                  /\ ds[i][2].f = "anchor"
                  /\ ds[i][2].val = <<unwrap(anchor)>>
            /\ \A i, j \in 1..Len(ds) : ds[i][2] = ds[j][2]

C20_Witness ==
    /\ op = "build"
    /\ txn_type = "Transfer"
    /\ ret.tag = "Ok"
    /\ Len(spends) = 2
    /\ anchor = Some(MaxRoot)
    /\ DecodedSpends(ret.payload)[1][2] = DecodedSpends(ret.payload)[2][2]
    /\ DecodedSpends(ret.payload)[1][1] # DecodedSpends(ret.payload)[2][1]

AddOps == {"add_sapling_spend", "add_sapling_output", "add_transparent_input",
           "add_transparent_output"}

\* C21: an add operation that returns an error leaves the spends, the outputs, both
\* transparent legs, the value balance and the anchor as they were; so the anchor is set
\* exactly when the Builder holds a spend, and a spend rejected for its amount does not
\* constrain the root of later spends.
C21_FailedAddFrame ==
    [][ /\ (op' \in AddOps /\ ret'.tag = "Err") => builder' = builder
        /\ is_some(anchor') <=> spends' # <<>>
      ]_vars

\* the response the routing table gives a (method, path)
ExpectedBody(method, path) ==
    IF method = "GET" /\ path = "/" THEN "graphiql"
    ELSE IF method = "GET" /\ path = "/playground" THEN "playground"
    ELSE IF method \in {"GET", "POST"} /\ path = "/graphql" THEN "graphql"
    ELSE ""

\* C22: while the GraphQL server serves, every request gets a response chosen by its
\* method and path alone, whatever headers it carries (a request with no user-agent
\* included): GET / the GraphiQL page, GET /playground the playground page, GET or POST
\* /graphql the execution result, anything else a 404 with an empty body; and a server
\* whose configuration disables GraphQL returns without binding or serving.
C22_Routing ==
    [][ /\ \A r \in Requests, exec_ok \in BOOLEAN, later \in BOOLEAN :
              service_fn(r, exec_ok, later) =>
                  /\ conn' # "aborted"
                  /\ \/ pending' = Append(pending, r)
                     \/ /\ conn' = "responded"
                        /\ is_some(response')
                        /\ unwrap(response').body = ExpectedBody(r.method, r.path)
                        /\ ExpectedBody(r.method, r.path) = ""
                              => unwrap(response') = Response(404, "")
        /\ \A i \in 1..Len(pending), exec_ok \in BOOLEAN :
              respond(i, exec_ok) =>
                  /\ conn' = "responded"
                  /\ is_some(response')
                  /\ unwrap(response').body = ExpectedBody(pending[i].method, pending[i].path)
        /\ (~enable' /\ server' # "init") => (server' = "returned" /\ ~bound' /\ served' = 0)
      ]_vars
====
